---- MODULE Spec2Model ----
(***************************************************************************)
(* Model of wrangler's tool installer, src/install/mod.rs:                 *)
(* install -> tool_needs_update -> get_installation, and                   *)
(* install -> download_prebuilt -> prebuilt_url -> external artifact cache.*)
(*                                                                         *)
(* Strings are sequences of one-character strings, so that starts_with,    *)
(* split, Version::parse and to_string work on the text itself.  The fixed *)
(* pieces of URLs and messages, which the code only ever concatenates, are *)
(* kept as one-element sequences.                                          *)
(***************************************************************************)
EXTENDS Integers, Sequences, FiniteSets, TLC

\* ------------------------------------------------------------------ bounds

\* install is followed while the cache directory holds at most this many
\* entries
MaxEntries == 2

\* ----------------------------------------------------------------- strings

Digits == <<"0", "1", "2", "3", "4", "5", "6", "7", "8", "9">>

IsDigit(c) == \E i \in 1..10 : Digits[i] = c

DigitVal(c) == (CHOOSE i \in 1..10 : Digits[i] = c) - 1

\* str::starts_with
starts_with(s, p) == Len(p) <= Len(s) /\ SubSeq(s, 1, Len(p)) = p

\* the set of positions at which pat occurs in s
Matches(s, pat) ==
    {i \in 1..(Len(s) - Len(pat) + 1) : SubSeq(s, i, i + Len(pat) - 1) = pat}

Min(S) == CHOOSE x \in S : \A y \in S : x <= y

\* s contains pat (str::contains)
Contains(s, pat) == Matches(s, pat) # {}

\* str::split(pat).collect::<Vec<&str>>(): the pieces between the
\* non-overlapping occurrences of a non-empty pattern, found left to right
RECURSIVE split(_, _)
split(s, pat) ==
    IF Matches(s, pat) = {}
    THEN <<s>>
    ELSE LET i == Min(Matches(s, pat))
         IN  <<SubSeq(s, 1, i - 1)>> \o split(SubSeq(s, i + Len(pat), Len(s)), pat)

\* ---------------------------------------------------------------- versions

\* semver::Version, restricted to major.minor.patch: the texts of the model
\* carry no pre-release or build part
MkVersion(ma, mi, pa) == [major |-> ma, minor |-> mi, patch |-> pa]

\* a numeric identifier: digits, no leading zero
IsNumeric(s) ==
    /\ Len(s) >= 1
    /\ \A i \in 1..Len(s) : IsDigit(s[i])
    /\ (Len(s) > 1 => s[1] # "0")

RECURSIVE NumVal(_)
NumVal(s) ==
    IF Len(s) = 0 THEN 0
    ELSE 10 * NumVal(SubSeq(s, 1, Len(s) - 1)) + DigitVal(s[Len(s)])

\* Version::parse: Ok(version) for "<num>.<num>.<num>", Err otherwise
VersionParse(s) ==
    LET parts == split(s, <<".">>)
    IN  IF Len(parts) = 3 /\ \A i \in 1..3 : IsNumeric(parts[i])
        THEN [ok |-> TRUE,
              version |-> MkVersion(NumVal(parts[1]), NumVal(parts[2]), NumVal(parts[3]))]
        ELSE [ok |-> FALSE]

RECURSIVE NumToString(_)
NumToString(n) ==
    IF n < 10 THEN <<Digits[n + 1]>>
    ELSE NumToString(n \div 10) \o <<Digits[(n % 10) + 1]>>

\* Version::to_string
VersionToString(v) ==
    NumToString(v.major) \o <<".">> \o NumToString(v.minor) \o <<".">> \o NumToString(v.patch)

\* Ord for Version: major, then minor, then patch
VersionGe(a, b) ==
    \/ a.major > b.major
    \/ a.major = b.major /\ a.minor > b.minor
    \/ a.major = b.major /\ a.minor = b.minor /\ a.patch >= b.patch

\* ------------------------------------------------------- the cache directory

Foo == <<"f", "o", "o">>

WranglerJs == <<"w", "r", "a", "n", "g", "l", "e", "r", "j", "s">>

Dash == <<"-">>

V_2_1_0 == MkVersion(2, 1, 0)

V_2_3_0 == MkVersion(2, 3, 0)

V_1_9_0 == MkVersion(1, 9, 0)

V_2_0_0 == MkVersion(2, 0, 0)

\* a directory entry: its file name, and whether the name is valid UTF-8
Entry(name) == [name |-> name, utf8 |-> TRUE]

\* the entry the external cache keeps for a tool at a version
InstalledEntry(tool_name, version) == Entry(tool_name \o Dash \o VersionToString(version))

\* the entries a cache directory may hold before the first install call
EntryPool ==
    { InstalledEntry(Foo, V_2_1_0), InstalledEntry(Foo, V_2_3_0),
      InstalledEntry(Foo, V_1_9_0), InstalledEntry(Foo, V_2_0_0),
      Entry(Foo \o Dash \o <<"2", ".", "x">>),
      Entry(Foo \o <<"b", "a", "r">>),
      Entry(Foo \o Dash \o VersionToString(V_2_1_0) \o Foo \o Dash),
      Entry(<<"b", "a", "r">> \o Dash \o VersionToString(V_2_1_0)),
      [name |-> <<"f", "o", "?">>, utf8 |-> FALSE] }

\* the tools, owners and versions install is called with
Tools == {Foo, WranglerJs}

Owners == {<<"rustwasm">>, <<"cloudflare">>}

Targets == {V_2_1_0, V_2_3_0}

Request(tool_name, owner, is_binary, version) ==
    [tool_name |-> tool_name, owner |-> owner, is_binary |-> is_binary, version |-> version]

\* the calls followed against every cache directory
Requests == {Request(Foo, <<"rustwasm">>, b, v) : b \in BOOLEAN, v \in Targets}

\* the calls followed on every host
HostRequests == {Request(t, o, b, V_2_1_0) : t \in Tools, o \in Owners, b \in BOOLEAN}

\* entry.path(): CACHE.destination joined with the file name
EntryPath(entry) == <<"CACHE.destination/">> \o entry.name

\* the orders in which read_dir may list a set of entries
Listings(dir) ==
    {l \in [1..Cardinality(dir) -> dir] : \A i, j \in 1..Cardinality(dir) : l[i] = l[j] => i = j}

\* what the file system does to one scan: read_dir itself fails, or
\* yielding the entry at position `entry` fails (0: no entry fails)
NoFault == [read_dir |-> FALSE, entry |-> 0]

Faults(n) == {[read_dir |-> TRUE, entry |-> 0]} \cup {[read_dir |-> FALSE, entry |-> k] : k \in 0..n}

\* ---------------------------------------------------------- get_installation

\* lines 96-99: the text after the separator and its parse; the index [1]
\* panics when the name holds no separator
EntryVersion(filename, tool_name) ==
    LET parts == split(filename, tool_name \o Dash)
    IN  IF Len(parts) < 2 THEN [panic |-> TRUE, ok |-> FALSE]
        ELSE [panic |-> FALSE] @@ VersionParse(parts[2])

\* a bug: any version of the same major line that is not older is a match
is_target_compatible(installed_version, target_version) ==
    /\ installed_version.major = target_version.major
    /\ VersionGe(installed_version, target_version)

\* line 102: &installed_version == target_version
is_target(installed_version, target_version) == installed_version = target_version

\* the loop of get_installation from position i of the listing
RECURSIVE ScanFrom(_, _, _, _, _)
ScanFrom(tool_name, target_version, listing, fault, i) ==
    IF i > Len(listing) THEN [kind |-> "None"]
    ELSE IF fault.entry = i THEN [kind |-> "Err", msg |-> <<"io error">>]
    ELSE LET entry == listing[i]
             next == ScanFrom(tool_name, target_version, listing, fault, i + 1)
         IN  IF ~entry.utf8 THEN next
             ELSE IF ~starts_with(entry.name, tool_name) THEN next
             ELSE LET installed_version == EntryVersion(entry.name, tool_name)
                  IN  IF installed_version.panic THEN [kind |-> "Panic"]
                      ELSE IF /\ installed_version.ok
                              /\ is_target(installed_version.version, target_version)
                      THEN [kind |-> "Some", version |-> installed_version.version,
                            path |-> EntryPath(entry)]
                      ELSE next

get_installation(tool_name, target_version, listing, fault) ==
    IF fault.read_dir THEN [kind |-> "Err", msg |-> <<"io error">>]
    ELSE ScanFrom(tool_name, target_version, listing, fault, 1)

\* --------------------------------------------------------- tool_needs_update

\* a bug: the failure of get_installation is propagated with `?`
tool_needs_update_propagating(tool_name, target_version, listing, fault) ==
    LET current_installation == get_installation(tool_name, target_version, listing, fault)
    IN  IF current_installation.kind \in {"Panic", "Err"} THEN current_installation
        ELSE IF /\ current_installation.kind = "Some"
                /\ current_installation.version.major = target_version.major
                /\ VersionGe(current_installation.version, target_version)
        THEN [kind |-> "InstalledAt", download |-> current_installation.path]
        ELSE [kind |-> "NeedsInstall", version |-> target_version]

tool_needs_update(tool_name, target_version, listing, fault) ==
    LET current_installation == get_installation(tool_name, target_version, listing, fault)
    IN  IF current_installation.kind = "Panic" THEN [kind |-> "Panic"]
        ELSE IF /\ current_installation.kind = "Some"
                /\ current_installation.version.major = target_version.major
                /\ VersionGe(current_installation.version, target_version)
        THEN [kind |-> "InstalledAt", download |-> current_installation.path]
        ELSE [kind |-> "NeedsInstall", version |-> target_version]

\* -------------------------------------------------------------- prebuilt_url

\* the host the program was built for: target::LINUX / MACOS / WINDOWS and
\* target::x86_64 / aarch64 are the cfg! facts of one (os, arch) pair
OSes == {"linux", "macos", "windows", "freebsd"}

Archs == {"x86_64", "aarch64"}

Hosts == [os : OSes, arch : Archs]

\* one host with prebuilt binaries and one without
CacheHosts == {[os |-> "linux", arch |-> "x86_64"], [os |-> "freebsd", arch |-> "x86_64"]}

\* a bug: an unrecognised host falls back to the Linux triple
target_triple_fallback(h) ==
    IF h.os = "macos" /\ h.arch = "x86_64" THEN "x86_64-apple-darwin"
    ELSE IF h.os = "windows" /\ h.arch = "x86_64" THEN "x86_64-pc-windows-msvc"
    ELSE IF h.os = "macos" /\ h.arch = "aarch64" THEN "aarch64-apple-darwin"
    ELSE "x86_64-unknown-linux-musl"

\* lines 148-158: the target triple of the host, "none" where the code
\* returns None
target_triple(h) ==
    IF h.os = "linux" /\ h.arch = "x86_64" THEN "x86_64-unknown-linux-musl"
    ELSE IF h.os = "macos" /\ h.arch = "x86_64" THEN "x86_64-apple-darwin"
    ELSE IF h.os = "windows" /\ h.arch = "x86_64" THEN "x86_64-pc-windows-msvc"
    ELSE IF h.os = "macos" /\ h.arch = "aarch64" THEN "aarch64-apple-darwin"
    ELSE "none"

\* a bug: the get-binary template on every triple
target_url_no_override(tool_name, owner, version, target) ==
    <<"https://workers.cloudflare.com/get-binary/">>
        \o owner \o <<"/">> \o tool_name \o <<"/v">> \o version \o <<"/", target, ".tar.gz">>

\* lines 160-172: the URL of a non-legacy tool for a target triple
target_url(tool_name, owner, version, target) ==
    IF target = "aarch64-apple-darwin"
    THEN <<"https://workers.cloudflare.com/get-override/">>
             \o owner \o <<"/">> \o tool_name \o <<"/v">> \o version
             \o <<"/", target, ".tar.gz">>
    ELSE <<"https://workers.cloudflare.com/get-binary/">>
             \o owner \o <<"/">> \o tool_name \o <<"/v">> \o version
             \o <<"/", target, ".tar.gz">>

prebuilt_url(tool_name, owner, version, h) ==
    IF tool_name = WranglerJs
    THEN [some |-> TRUE,
          url |-> <<"https://workers.cloudflare.com/get-wranglerjs-binary/">>
                  \o tool_name \o <<"/v">> \o version \o <<".tar.gz">>]
    ELSE LET target == target_triple(h)
         IN  IF target = "none" THEN [some |-> FALSE]
             ELSE [some |-> TRUE, url |-> target_url(tool_name, owner, version, target)]

\* ---------------------------------------------------------- download_prebuilt

\* what the external artifact cache answers to a download operation:
\* Err(e), Ok(None) or Ok(Some(download))
Outcomes == {"Err", "None", "Some"}

\* the Download the external cache hands back for a tool at a version
CacheDownload(tool_name, version) == <<"CACHE.destination/">> \o tool_name \o Dash \o version

\* the result of download_prebuilt and the operations it invoked
download_prebuilt(tool_name, owner, version, binaries, h, outcome) ==
    LET url == prebuilt_url(tool_name, owner, version, h)
    IN  IF ~url.some
        THEN [ok |-> FALSE, calls |-> <<>>,
              msg |-> <<"no prebuilt ">> \o tool_name
                      \o <<" binaries are available for this platform">>]
        ELSE LET call ==
                     IF binaries # <<>>
                     THEN [op |-> "download_version", tool_name |-> tool_name,
                           binaries |-> binaries, url |-> url.url, version |-> version]
                     ELSE [op |-> "download_artifact_version", tool_name |-> tool_name,
                           binaries |-> <<>>, url |-> url.url, version |-> version]
             IN  CASE outcome = "Err" ->
                        [ok |-> FALSE, calls |-> <<call>>, msg |-> <<"download failed">>]
                   [] outcome = "None" ->
                        [ok |-> FALSE, calls |-> <<call>>,
                         msg |-> tool_name \o <<" is not installed!">>]
                   [] outcome = "Some" ->
                        [ok |-> TRUE, calls |-> <<call>>,
                         download |-> CacheDownload(tool_name, version)]

\* a bug: the error of download_prebuilt is returned as it is
WrapDownload_bare(tool_name, download) ==
    IF download.ok
    THEN [kind |-> "Ok", download |-> download.download]
    ELSE [kind |-> "Err", msg |-> download.msg]

\* lines 53-60: install's wrapping of download_prebuilt's result (the
\* backquotes of the message are written "'")
WrapDownload(tool_name, download) ==
    IF download.ok
    THEN [kind |-> "Ok", download |-> download.download]
    ELSE [kind |-> "Err",
          msg |-> <<"could not download ", "'">> \o tool_name \o <<"'", "\n">> \o download.msg]

\* a bug: the tool name is expected as a binary whatever is_binary says
Binaries_always(tool_name, is_binary) == <<tool_name>>

\* line 50
Binaries(tool_name, is_binary) == IF is_binary THEN <<tool_name>> ELSE <<>>

\* -------------------------------------------------------------------- state

VARIABLES
    cacheDir,    \* the entries of CACHE.destination
    host,        \* the (os, arch) pair of the build
    pc,          \* where the current install call stands
    req,         \* the arguments of the current install call
    listing,     \* the order in which read_dir listed the entries
    fault,       \* what the file system did to the scan
    current_installation,  \* what get_installation returned
    decision,    \* what tool_needs_update returned
    events,      \* read_dir and download operations of the call, in order
    answer,      \* what the external cache answered to the download operation
    result,      \* what install returned
    installed    \* <<tool, version>> pairs a download has succeeded for

vars == <<cacheDir, host, pc, req, listing, fault, current_installation,
          decision, events, answer, result, installed>>

NoReq == Request(<<>>, <<>>, FALSE, MkVersion(0, 0, 0))

NoValue == [kind |-> "NoValue"]

Idle ==
    /\ pc = "idle"
    /\ req = NoReq
    /\ listing = <<>>
    /\ fault = NoFault
    /\ current_installation = NoValue
    /\ decision = NoValue
    /\ events = <<>>
    /\ answer = "NotCalled"
    /\ result = NoValue
    /\ installed = {}

Init ==
    /\ \E dir \in SUBSET EntryPool :
          /\ Cardinality(dir) <= MaxEntries
          /\ cacheDir = dir
    /\ host \in CacheHosts
    /\ Idle

InitHosts ==
    /\ cacheDir \in SUBSET {InstalledEntry(Foo, V_2_1_0), Entry(Foo \o <<"b", "a", "r">>)}
    /\ host \in Hosts
    /\ Idle

\* a bug: a reuse decision goes on to the download step
AfterDecision_always_download(d) ==
    IF d.kind = "Panic" THEN "panicked"
    ELSE IF d.kind = "Err" THEN "done"
    ELSE "download"

\* lines 47-48 and 62: where install goes on the decision (the `?` of line 47
\* returns an Err at once)
AfterDecision(d) ==
    CASE d.kind = "Panic" -> "panicked"
      [] d.kind = "Err" -> "done"
      [] d.kind = "InstalledAt" -> "done"
      [] d.kind = "NeedsInstall" -> "download"

\* install, lines 41-47 and 62-65: the call, the scan of the cache directory
\* and the decision; a reuse decision returns at once
Install(r, l, f) ==
    /\ pc = "idle"
    /\ Cardinality(cacheDir) <= MaxEntries
    /\ req' = r
    /\ listing' = l
    /\ fault' = f
    /\ events' = <<[op |-> "read_dir"]>>
    /\ current_installation' = get_installation(r.tool_name, r.version, l, f)
    /\ decision' = tool_needs_update(r.tool_name, r.version, l, f)
    /\ pc' = AfterDecision(decision')
    /\ result' = CASE decision'.kind = "InstalledAt" ->
                        [kind |-> "Ok", download |-> decision'.download]
                   [] decision'.kind = "Err" -> decision'
                   [] OTHER -> NoValue
    /\ answer' = "NotCalled"
    /\ UNCHANGED <<cacheDir, host, installed>>

\* install, lines 48-60: the download through the external artifact cache,
\* which on success holds the entry "<tool_name>-<version>"
Download(outcome) ==
    /\ pc = "download"
    /\ LET version == VersionToString(decision.version)
           download == download_prebuilt(req.tool_name, req.owner, version,
                                         Binaries(req.tool_name, req.is_binary),
                                         host, outcome)
       IN  /\ events' = events \o download.calls
           /\ answer' = IF download.calls = <<>> THEN "NotCalled" ELSE outcome
           /\ result' = WrapDownload(req.tool_name, download)
           /\ cacheDir' = IF download.ok
                          THEN cacheDir \cup {Entry(req.tool_name \o Dash \o version)}
                          ELSE cacheDir
           /\ installed' = IF download.ok
                           THEN installed \cup {<<req.tool_name, decision.version>>}
                           ELSE installed
    /\ pc' = "done"
    /\ UNCHANGED <<host, req, listing, fault, current_installation, decision>>

\* install has returned to its caller
Return ==
    /\ pc = "done"
    /\ pc' = "idle"
    /\ req' = NoReq
    /\ listing' = <<>>
    /\ fault' = NoFault
    /\ current_installation' = NoValue
    /\ decision' = NoValue
    /\ events' = <<>>
    /\ answer' = "NotCalled"
    /\ result' = NoValue
    /\ UNCHANGED <<cacheDir, host, installed>>

\* the process has died of the panic; the program is run again
Restart ==
    /\ pc = "panicked"
    /\ pc' = "idle"
    /\ req' = NoReq
    /\ listing' = <<>>
    /\ fault' = NoFault
    /\ current_installation' = NoValue
    /\ decision' = NoValue
    /\ events' = <<>>
    /\ answer' = "NotCalled"
    /\ result' = NoValue
    /\ UNCHANGED <<cacheDir, host, installed>>

\* an entry leaves the cache directory (eviction belongs to the external cache)
RemoveEntry(entry) ==
    /\ pc = "idle"
    /\ entry \in cacheDir
    /\ cacheDir' = cacheDir \ {entry}
    /\ UNCHANGED <<host, pc, req, listing, fault, current_installation, decision,
                   events, answer, result, installed>>

Next ==
    \/ \E r \in Requests : \E l \in Listings(cacheDir) : \E f \in Faults(Len(l)) :
          Install(r, l, f)
    \/ \E outcome \in Outcomes : Download(outcome)
    \/ Return
    \/ Restart
    \/ \E entry \in cacheDir : RemoveEntry(entry)

Spec == Init /\ [][Next]_vars

NextHosts ==
    \/ \E r \in HostRequests : \E l \in Listings(cacheDir) : \E f \in Faults(Len(l)) :
          Install(r, l, f)
    \/ \E outcome \in Outcomes : Download(outcome)
    \/ Return
    \/ Restart
    \/ \E entry \in cacheDir : RemoveEntry(entry)

SpecHosts == InitHosts /\ [][NextHosts]_vars

\* ------------------------------------------------------------------- claims

\* the scan and the decision of the current call have been made
Resolved == pc \in {"download", "done", "panicked"}

\* the download operations among the events of the current call
DownloadOps == {"download_version", "download_artifact_version"}

DownloadEvents == SelectSeq(events, LAMBDA e : e.op \in DownloadOps)

ScanEvents == SelectSeq(events, LAMBDA e : e.op = "read_dir")

\* the versions an entry of the cache directory may carry
KnownVersions == {V_2_1_0, V_2_3_0, V_1_9_0, V_2_0_0}

NeedsInstall(version) == [kind |-> "NeedsInstall", version |-> version]

InstalledAt(entry) == [kind |-> "InstalledAt", download |-> EntryPath(entry)]

\* entry is one get_installation may return for the tool at the version:
\* a UTF-8 name that starts with the tool name and whose text between the
\* first and the second separator parses to the version
EntryMatches(entry, tool_name, version) ==
    /\ entry.utf8
    /\ starts_with(entry.name, tool_name)
    /\ LET parts == split(entry.name, tool_name \o Dash)
       IN  /\ Len(parts) >= 2
           /\ VersionParse(parts[2]) = [ok |-> TRUE, version |-> version]

\* entry starts with the tool name and the text that follows the separator
\* "<tool_name>-" is no semantic version
Unparseable(entry, tool_name) ==
    /\ entry.utf8
    /\ starts_with(entry.name, tool_name)
    /\ \/ ~starts_with(entry.name, tool_name \o Dash)
       \/ ~VersionParse(SubSeq(entry.name, Len(tool_name) + 2, Len(entry.name))).ok

\* C1: with the cache directory readable and holding the single entry
\* "<tool_name>-I", tool_needs_update returns the reuse decision pointing at
\* that entry iff I.major = T.major and I >= T, and NeedsInstall(T) otherwise
\* (T = 2.1.0 and "foo-2.3.0" gives reuse).
C1_ReuseIffCompatible ==
    (Resolved /\ fault = NoFault /\ Len(listing) = 1) =>
        \A I \in KnownVersions :
            listing[1] = InstalledEntry(req.tool_name, I) =>
                IF I.major = req.version.major /\ VersionGe(I, req.version)
                THEN decision = InstalledAt(listing[1])
                ELSE decision = NeedsInstall(req.version)

\* C2: when reading the cache directory fails, get_installation returns a
\* failure and tool_needs_update absorbs it: the decision is
\* NeedsInstall(target_version), install goes on to the download step, and
\* no error install returns is the cache-read failure.
C2_CacheReadFailureAbsorbed ==
    Resolved =>
        /\ fault.read_dir => current_installation.kind = "Err"
        /\ (fault.entry >= 1 /\ current_installation.kind \notin {"Some", "Panic"})
               => current_installation.kind = "Err"
        /\ current_installation.kind = "Err" =>
               /\ decision = NeedsInstall(req.version)
               /\ pc \in {"download", "done"}
        /\ (pc = "done" /\ result.kind = "Err") =>
               /\ starts_with(result.msg, <<"could not download ">>)
               /\ current_installation.kind = "Err" =>
                      ~Contains(result.msg, current_installation.msg)

\* C2 witness: read_dir failed and install still returned a Download
C2_Witness ==
    /\ pc = "done"
    /\ fault.read_dir
    /\ current_installation.kind = "Err"
    /\ result.kind = "Ok"

\* C3: an entry that starts with the tool name and whose text after the
\* separator is no semantic version is skipped: it never makes the call
\* abort and is never the entry returned.
C3_UnparseableSkipped ==
    Resolved =>
        \A i \in 1..Len(listing) :
            Unparseable(listing[i], req.tool_name) =>
                /\ pc # "panicked"
                /\ current_installation.kind # "Panic"
                /\ current_installation.kind = "Some" =>
                       current_installation.path # EntryPath(listing[i])

\* C9: get_installation returns an entry only when its parsed version equals
\* target_version, the first such entry of the listing, and no entry when no
\* entry's version equals it; tool_needs_update decides reuse only of an
\* entry whose version is the target.
C9_ExactMatchOnly ==
    Resolved =>
        /\ current_installation.kind = "Some" =>
               /\ current_installation.version = req.version
               /\ \E i \in 1..Len(listing) :
                      /\ EntryMatches(listing[i], req.tool_name, req.version)
                      /\ current_installation.path = EntryPath(listing[i])
                      /\ \A j \in 1..(i - 1) :
                             ~EntryMatches(listing[j], req.tool_name, req.version)
        /\ (\A i \in 1..Len(listing) :
                ~EntryMatches(listing[i], req.tool_name, req.version))
               => current_installation.kind # "Some"
        /\ decision.kind = "InstalledAt" =>
               \E i \in 1..Len(listing) :
                   /\ EntryMatches(listing[i], req.tool_name, req.version)
                   /\ decision.download = EntryPath(listing[i])

\* C9 witness: a newer entry of the same major line is listed and the
\* decision is a fresh install of the target
C9_Witness ==
    /\ Resolved
    /\ fault = NoFault
    /\ req.version = V_2_1_0
    /\ \E i \in 1..Len(listing) : listing[i] = InstalledEntry(req.tool_name, V_2_3_0)
    /\ current_installation.kind = "None"
    /\ decision = NeedsInstall(V_2_1_0)

\* C4: one install call scans the cache directory at most once and invokes
\* a download operation at most once, the scan first; on a reuse decision no
\* download operation is invoked and install returns a Download wrapping the
\* path of the entry found.
C4_OneScanOneDownload ==
    /\ Len(ScanEvents) <= 1
    /\ Len(DownloadEvents) <= 1
    /\ \A i \in 1..Len(events) :
           events[i].op \in DownloadOps => \E j \in 1..(i - 1) : events[j].op = "read_dir"
    /\ (Resolved /\ decision.kind = "InstalledAt") =>
           /\ DownloadEvents = <<>>
           /\ pc = "done"
           /\ result.kind = "Ok"
           /\ \E entry \in cacheDir : result.download = EntryPath(entry)
           /\ current_installation.kind = "Some"
           /\ result.download = current_installation.path

\* C4 witness: a call that scanned, decided reuse and returned
C4_Witness ==
    /\ pc = "done"
    /\ decision.kind = "InstalledAt"
    /\ Len(ScanEvents) = 1
    /\ result.kind = "Ok"

\* C5: when the download operation returns an error or no Download, install
\* returns an error whose message names the tool, never a Download, and the
\* download operation was invoked once.
C5_DownloadFailureSurfaced ==
    (pc = "done" /\ answer \in {"Err", "None"}) =>
        /\ result.kind = "Err"
        /\ Contains(result.msg, <<"'">> \o req.tool_name \o <<"'">>)
        /\ Len(DownloadEvents) = 1

\* C5 witness: the external cache answered with no Download
C5_Witness ==
    /\ pc = "done"
    /\ answer = "None"
    /\ result.kind = "Err"

\* the four recognised hosts
Recognised(h) ==
    \/ h.os = "linux" /\ h.arch = "x86_64"
    \/ h.os = "macos" /\ h.arch = "x86_64"
    \/ h.os = "windows" /\ h.arch = "x86_64"
    \/ h.os = "macos" /\ h.arch = "aarch64"

\* the one download operation of the call is the one is_binary chooses, with
\* the arguments install was called with
ChosenByIsBinary ==
    /\ Len(DownloadEvents) = 1
    /\ DownloadEvents[1].tool_name = req.tool_name
    /\ DownloadEvents[1].version = VersionToString(req.version)
    /\ IF req.is_binary
       THEN /\ DownloadEvents[1].op = "download_version"
            /\ DownloadEvents[1].binaries = <<req.tool_name>>
       ELSE /\ DownloadEvents[1].op = "download_artifact_version"
            /\ DownloadEvents[1].binaries = <<>>

\* C6 as stated: on a NeedsInstall decision install invokes exactly one of
\* the two download operations, chosen by is_binary alone, with the tool
\* name and the string form of the target version.
C6_ExactlyOneDownload ==
    (pc = "done" /\ decision.kind = "NeedsInstall") => ChosenByIsBinary

\* C6 amended: on a NeedsInstall decision for a legacy tool or a recognised
\* host install invokes exactly one of the two download operations, chosen
\* by is_binary alone; for any other tool on an unrecognised host it invokes
\* neither.
C6_OneDownloadWhenUrl ==
    (pc = "done" /\ decision.kind = "NeedsInstall") =>
        IF req.tool_name = WranglerJs \/ Recognised(host)
        THEN ChosenByIsBinary
        ELSE DownloadEvents = <<>>

\* C6 witness: an artifact download (is_binary false) was invoked
C6_Witness ==
    /\ pc = "done"
    /\ decision.kind = "NeedsInstall"
    /\ ~req.is_binary
    /\ Len(DownloadEvents) = 1
    /\ DownloadEvents[1].op = "download_artifact_version"

\* the three URL templates
LegacyUrl(tool_name, version) ==
    <<"https://workers.cloudflare.com/get-wranglerjs-binary/">>
        \o tool_name \o <<"/v">> \o version \o <<".tar.gz">>

OverrideUrl(owner, tool_name, version, triple) ==
    <<"https://workers.cloudflare.com/get-override/">>
        \o owner \o <<"/">> \o tool_name \o <<"/v">> \o version \o <<"/", triple, ".tar.gz">>

BinaryUrl(owner, tool_name, version, triple) ==
    <<"https://workers.cloudflare.com/get-binary/">>
        \o owner \o <<"/">> \o tool_name \o <<"/v">> \o version \o <<"/", triple, ".tar.gz">>

C8_UnsupportedPlatformFails ==
    (pc = "done" /\ decision.kind = "NeedsInstall"
        /\ ~Recognised(host) /\ req.tool_name # WranglerJs) =>
        /\ result.kind = "Err"
        /\ Contains(result.msg, <<"no prebuilt ">> \o req.tool_name)
        /\ DownloadEvents = <<>>
        /\ answer = "NotCalled"

\* C8 witness: such a call on Linux+aarch64
C8_Witness ==
    /\ pc = "done"
    /\ decision.kind = "NeedsInstall"
    /\ host = [os |-> "linux", arch |-> "aarch64"]
    /\ req.tool_name = Foo
    /\ result.kind = "Err"

\* C10: once a download has succeeded for a tool at version T, an install of
\* the same tool at T, made while the entry "<tool_name>-T" is present and
\* the directory is readable, decides reuse of that entry and returns a
\* Download at its path without invoking a download operation.
C10_ReuseAfterDownload ==
    [][ ( /\ pc = "idle"
          /\ pc' # "idle"
          /\ <<req'.tool_name, req'.version>> \in installed
          /\ InstalledEntry(req'.tool_name, req'.version) \in cacheDir
          /\ fault' = NoFault )
        => ( /\ pc' = "done"
             /\ decision' = InstalledAt(InstalledEntry(req'.tool_name, req'.version))
             /\ result' = [kind |-> "Ok",
                           download |-> EntryPath(InstalledEntry(req'.tool_name, req'.version))]
             /\ events' = <<[op |-> "read_dir"]>> ) ]_vars

====
